---- MODULE Spec2Model ----
(***************************************************************************)
(* Tic-tac-toe game engine and heuristic opponent of src/script.js.        *)
(* The state is the script's four globals, the status text, the set of     *)
(* highlighted cells and the queue of pending setTimeout callbacks; one    *)
(* action per event handler.                                               *)
(***************************************************************************)
EXTENDS Integers, Sequences, FiniteSets, TLC

\* Largest number of setTimeout callbacks outstanding at one time.
MaxTimers == 2

\* Indices a click event may carry: the nine cells and one index outside.
MaxClickIndex == 9

Cells == 0..8

Marks == {"X", "O"}

Modes == {"human-human", "human-computer"}

winningCombinations ==
    << <<0, 1, 2>>, <<3, 4, 5>>, <<6, 7, 8>>,
       <<0, 3, 6>>, <<1, 4, 7>>, <<2, 5, 8>>,
       <<0, 4, 8>>, <<2, 4, 6>> >>

EmptyBoard == [c \in Cells |-> ""]

VARIABLES
    board,          \* script.js:14
    currentPlayer,  \* script.js:15
    gameActive,     \* script.js:16
    gameMode,       \* script.js:17
    status,         \* statusDisplay.textContent
    highlight,      \* cells carrying the win-highlight class
    timers,         \* pending setTimeout(makeComputerMove) callbacks, oldest first
    placedBy,       \* history: which handler wrote each mark
    lastCell,       \* history: the cell the last handler wrote, -1 if none
    lastOp          \* history: the handler that ran last and how it ended

vars == <<board, currentPlayer, gameActive, gameMode, status, highlight,
          timers, placedBy, lastCell, lastOp>>

TurnMsg(p) == IF p = "X" THEN "Player X's Turn" ELSE "Player O's Turn"

WinsMsg(p) == IF p = "X" THEN "Player X Wins!" ELSE "Player O Wins!"

DrawMsg == "It's a Draw!"

\* board[i] as JavaScript reads it: undefined outside the array.
BoardAt(b, i) == IF i \in Cells THEN b[i] ELSE "undefined"

\* One line's three cells are non-empty and equal (script.js:110-114).
LineComplete(b, k) ==
    LET w == winningCombinations[k]
    IN /\ b[w[1]] # "" /\ b[w[2]] # "" /\ b[w[3]] # ""
       /\ b[w[1]] = b[w[2]] /\ b[w[2]] = b[w[3]]

\* checkForWin with only the six rows and columns scanned.
checkForWinNoDiagonals(b) == \E k \in 1..6 : LineComplete(b, k)

\* The loop of checkForWin from line k on: index of the first complete line, 0 if none.
RECURSIVE WinScan(_, _)
WinScan(b, k) ==
    IF k > Len(winningCombinations) THEN 0
    ELSE IF LineComplete(b, k) THEN k
    ELSE WinScan(b, k + 1)

checkForWin(b) == WinScan(b, 1) # 0

\* Cells checkForWin marks with win-highlight: those of the first complete line.
WinCells(b) ==
    LET k == WinScan(b, 1)
    IN IF k = 0 THEN {}
       ELSE {winningCombinations[k][j] : j \in 1..3}

BoardFull(b) == \A c \in Cells : b[c] # ""

checkForDraw(b) == ~checkForWin(b) /\ BoardFull(b)

\* Outcome without the draw test.
OutcomeNoDraw(b) ==
    IF checkForWin(b) THEN "win" ELSE "continue"

\* Outcome with the board-full test made before the win test.
OutcomeDrawFirst(b) ==
    IF BoardFull(b) THEN "draw"
    ELSE IF checkForWin(b) THEN "win"
    ELSE "continue"

\* The win-then-draw test both handlers run after placing a mark.
Outcome(b) ==
    IF checkForWin(b) THEN "win"
    ELSE IF checkForDraw(b) THEN "draw"
    ELSE "continue"

availableCells(b) == {c \in Cells : b[c] = ""}

Init ==
    /\ board = EmptyBoard
    /\ currentPlayer = "X"
    /\ gameActive = TRUE
    /\ gameMode = "human-human"
    /\ status = TurnMsg("X")
    /\ highlight = {}
    /\ timers = << >>
    /\ placedBy = EmptyBoard
    /\ lastCell = -1
    /\ lastOp = "init"

\* initializeGame without the assignment to currentPlayer.
initializeGameKeepsPlayer ==
    /\ board' = EmptyBoard
    /\ UNCHANGED currentPlayer
    /\ gameActive' = TRUE
    /\ status' = TurnMsg(currentPlayer)
    /\ highlight' = {}
    /\ placedBy' = EmptyBoard
    /\ timers' = [k \in 1..Len(timers) |-> "stale"]
    /\ lastCell' = -1

\* initializeGame: everything it assigns; pending callbacks are not cancelled.
initializeGame ==
    /\ board' = EmptyBoard
    /\ currentPlayer' = "X"
    /\ gameActive' = TRUE
    /\ status' = TurnMsg("X")
    /\ highlight' = {}
    /\ placedBy' = EmptyBoard
    /\ timers' = [k \in 1..Len(timers) |-> "stale"]
    /\ lastCell' = -1

showModeSelectionScreen ==
    /\ gameMode' = "human-human"
    /\ initializeGame
    /\ lastOp' = "back"

showGameScreen(m) ==
    /\ gameMode' = m
    /\ initializeGame
    /\ lastOp' = "start"

\* Number of cells of line k holding mark p (script.js:161, the filter).
LineCount(b, k, p) ==
    Cardinality({j \in 1..3 : b[winningCombinations[k][j]] = p})

\* line.includes('') of script.js:161.
LineHasEmpty(b, k) == \E j \in 1..3 : b[winningCombinations[k][j]] = ""

\* The loop of findWinningOrBlockingMove from line k on.
RECURSIVE FindScan(_, _, _)
FindScan(b, playerToCheck, k) ==
    IF k > Len(winningCombinations) THEN -1
    ELSE LET w  == winningCombinations[k]
             a  == w[1]
             bb == w[2]
             c  == w[3]
         IN IF LineCount(b, k, playerToCheck) = 2 /\ LineHasEmpty(b, k)
            THEN IF b[a] = "" /\ playerToCheck = b[bb] /\ playerToCheck = b[c] THEN a
                 ELSE IF b[bb] = "" /\ playerToCheck = b[a] /\ playerToCheck = b[c] THEN bb
                 ELSE IF b[c] = "" /\ playerToCheck = b[a] /\ playerToCheck = b[bb] THEN c
                 ELSE FindScan(b, playerToCheck, k + 1)
            ELSE FindScan(b, playerToCheck, k + 1)

\* findWinningOrBlockingMove that never finds a cell.
findNothing(b, playerToCheck) == -1

findWinningOrBlockingMove(b, playerToCheck) == FindScan(b, playerToCheck, 1)

\* OppositeCorner with the four pairs tested in the reverse order.
OppositeCornerReversed(b) ==
    IF b[8] = "X" /\ b[0] = "" THEN 0
    ELSE IF b[6] = "X" /\ b[2] = "" THEN 2
    ELSE IF b[2] = "X" /\ b[6] = "" THEN 6
    ELSE IF b[0] = "X" /\ b[8] = "" THEN 8
    ELSE -1

\* Rule 4: the opposite corner of a corner the human holds, pairs in source order.
OppositeCorner(b) ==
    IF b[0] = "X" /\ b[8] = "" THEN 8
    ELSE IF b[2] = "X" /\ b[6] = "" THEN 6
    ELSE IF b[6] = "X" /\ b[2] = "" THEN 2
    ELSE IF b[8] = "X" /\ b[0] = "" THEN 0
    ELSE -1

\* The loops of rules 5 and 6: the first empty cell of a fixed list.
RECURSIVE FirstEmpty(_, _, _)
FirstEmpty(b, list, i) ==
    IF i > Len(list) THEN -1
    ELSE IF b[list[i]] = "" THEN list[i]
    ELSE FirstEmpty(b, list, i + 1)

corners == <<0, 2, 6, 8>>

sides == <<1, 3, 5, 7>>

\* StrategicMove with the center taken before a block is tried.
StrategicMoveCenterFirst(b) ==
    LET m1 == findWinningOrBlockingMove(b, "O")
        m2 == IF m1 = -1 /\ b[4] = "" THEN 4 ELSE m1
        m3 == IF m2 = -1 THEN findWinningOrBlockingMove(b, "X") ELSE m2
        m4 == IF m3 = -1 THEN OppositeCorner(b) ELSE m3
        m5 == IF m4 = -1 THEN FirstEmpty(b, corners, 1) ELSE m4
        m6 == IF m5 = -1 THEN FirstEmpty(b, sides, 1) ELSE m5
    IN m6

\* StrategicMove with the sides scanned before the corners.
StrategicMoveSidesFirst(b) ==
    LET m1 == findWinningOrBlockingMove(b, "O")
        m2 == IF m1 = -1 THEN findWinningOrBlockingMove(b, "X") ELSE m1
        m3 == IF m2 = -1 /\ b[4] = "" THEN 4 ELSE m2
        m4 == IF m3 = -1 THEN OppositeCorner(b) ELSE m3
        m5 == IF m4 = -1 THEN FirstEmpty(b, sides, 1) ELSE m4
        m6 == IF m5 = -1 THEN FirstEmpty(b, corners, 1) ELSE m5
    IN m6

\* StrategicMove without rule 6, the scan of the sides.
StrategicMoveNoSides(b) ==
    LET m1 == findWinningOrBlockingMove(b, "O")
        m2 == IF m1 = -1 THEN findWinningOrBlockingMove(b, "X") ELSE m1
        m3 == IF m2 = -1 /\ b[4] = "" THEN 4 ELSE m2
        m4 == IF m3 = -1 THEN OppositeCorner(b) ELSE m3
        m5 == IF m4 = -1 THEN FirstEmpty(b, corners, 1) ELSE m4
    IN m5

\* StrategicMove with the block tried before the win.
StrategicMoveBlockFirst(b) ==
    LET m1 == findWinningOrBlockingMove(b, "X")
        m2 == IF m1 = -1 THEN findWinningOrBlockingMove(b, "O") ELSE m1
        m3 == IF m2 = -1 /\ b[4] = "" THEN 4 ELSE m2
        m4 == IF m3 = -1 THEN OppositeCorner(b) ELSE m3
        m5 == IF m4 = -1 THEN FirstEmpty(b, corners, 1) ELSE m4
        m6 == IF m5 = -1 THEN FirstEmpty(b, sides, 1) ELSE m5
    IN m6

\* bestMove after rules 1 to 6, before the random fallback (script.js:170-211).
StrategicMove(b) ==
    LET m1 == findWinningOrBlockingMove(b, "O")
        m2 == IF m1 = -1 THEN findWinningOrBlockingMove(b, "X") ELSE m1
        m3 == IF m2 = -1 /\ b[4] = "" THEN 4 ELSE m2
        m4 == IF m3 = -1 THEN OppositeCorner(b) ELSE m3
        m5 == IF m4 = -1 THEN FirstEmpty(b, corners, 1) ELSE m4
        m6 == IF m5 = -1 THEN FirstEmpty(b, sides, 1) ELSE m5
    IN m6

\* The values bestMove can hold at script.js:219; Math.random picks any
\* available cell when the fallback runs.
BestMoves(b) ==
    LET m == StrategicMove(b)
    IN IF m = -1 /\ availableCells(b) # {} THEN availableCells(b) ELSE {m}

\* ClickIgnored without its test that the clicked cell is empty.
ClickIgnoredNoCellTest(i) ==
    \/ i \notin Cells
    \/ ~gameActive
    \/ (gameMode = "human-computer" /\ currentPlayer = "O")

\* ClickIgnored without its test of whose turn it is.
ClickIgnoredNoTurnTest(i) ==
    \/ BoardAt(board, i) # ""
    \/ ~gameActive

\* The guard of handleCellClick (script.js:64).
ClickIgnored(i) ==
    \/ BoardAt(board, i) # ""
    \/ ~gameActive
    \/ (gameMode = "human-computer" /\ currentPlayer = "O")

\* What follows a placed mark in either handler: win, then draw, then hand over.
\* `next` is the player who moves after `mover` when the game goes on.
AfterPlacing(b, mover, next) ==
    /\ board' = b
    /\ highlight' = highlight \cup WinCells(b)
    /\ IF Outcome(b) = "win"
       THEN /\ status' = WinsMsg(mover)
            /\ gameActive' = FALSE
            /\ UNCHANGED currentPlayer
       ELSE IF Outcome(b) = "draw"
       THEN /\ status' = DrawMsg
            /\ gameActive' = FALSE
            /\ UNCHANGED currentPlayer
       ELSE /\ currentPlayer' = next
            /\ status' = TurnMsg(next)
            /\ UNCHANGED gameActive

\* script.js:91, evaluated after the player switch.
SchedulesComputer(b) ==
    /\ Outcome(b) = "continue"
    /\ gameMode = "human-computer"
    /\ currentPlayer = "X"
    /\ gameActive

handleCellClick(i) ==
    IF ClickIgnored(i)
    THEN /\ lastOp' = "rejected"
         /\ lastCell' = -1
         /\ UNCHANGED <<board, currentPlayer, gameActive, gameMode, status,
                        highlight, timers, placedBy>>
    ELSE LET b == [board EXCEPT ![i] = currentPlayer]
         IN /\ SchedulesComputer(b) => Len(timers) < MaxTimers
            /\ AfterPlacing(b, currentPlayer, IF currentPlayer = "X" THEN "O" ELSE "X")
            /\ timers' = IF SchedulesComputer(b) THEN Append(timers, "fresh") ELSE timers
            /\ placedBy' = [placedBy EXCEPT ![i] = "human"]
            /\ lastCell' = i
            /\ lastOp' = "accepted"
            /\ UNCHANGED gameMode

\* makeComputerMove without its early return.
ComputerNeverReturnsEarly == FALSE

\* The early return of makeComputerMove (script.js:140).
ComputerReturnsEarly == ~gameActive

\* A pending setTimeout callback fires: the oldest one, as timers of equal delay do.
makeComputerMove ==
    /\ timers # << >>
    /\ timers' = Tail(timers)
    /\ lastOp' = IF Head(timers) = "stale" THEN "timerStale" ELSE "timerFresh"
    /\ UNCHANGED gameMode
    /\ IF ComputerReturnsEarly
       THEN /\ lastCell' = -1
            /\ UNCHANGED <<board, currentPlayer, gameActive, status, highlight, placedBy>>
       ELSE IF availableCells(board) = {}
       THEN /\ highlight' = highlight \cup WinCells(board)
            /\ lastCell' = -1
            /\ UNCHANGED <<board, currentPlayer, gameActive, status, placedBy>>
       ELSE \E bestMove \in BestMoves(board) :
              IF bestMove # -1
              THEN /\ AfterPlacing([board EXCEPT ![bestMove] = "O"], "O", "X")
                   /\ placedBy' = [placedBy EXCEPT ![bestMove] = "computer"]
                   /\ lastCell' = bestMove
              ELSE /\ lastCell' = -1
                   /\ UNCHANGED <<board, currentPlayer, gameActive, status,
                                  highlight, placedBy>>

Next ==
    \/ \E i \in 0..MaxClickIndex : handleCellClick(i)
    \/ makeComputerMove
    \/ showModeSelectionScreen
    \/ \E m \in Modes : showGameScreen(m)

Spec == Init /\ [][Next]_vars

(***************************************************************************)
(* The opponent's policy and the win and draw checks as functions of the   *)
(* board: makeComputerMove runs from every board over {empty, X, O}, the   *)
(* game in progress, the computer to move and its callbacks pending.       *)
(***************************************************************************)
AllBoards == [Cells -> {"", "X", "O"}]

InitBoards ==
    /\ board \in AllBoards
    /\ currentPlayer = "O"
    /\ gameActive = TRUE
    /\ gameMode = "human-computer"
    /\ status = TurnMsg("O")
    /\ highlight = {}
    /\ timers = [k \in 1..MaxTimers |-> "fresh"]
    /\ placedBy = EmptyBoard
    /\ lastCell = -1
    /\ lastOp = "init"

NextBoards == makeComputerMove

SpecBoards == InitBoards /\ [][NextBoards]_vars

\* A pending setTimeout callback is eventually run by the event loop.
FairSpec == Spec /\ WF_vars(makeComputerMove)

(***************************************************************************)
(* Vocabulary of the properties.                                           *)
(***************************************************************************)
ClickIndices == 0..MaxClickIndex

\* Every handler records itself in lastOp, so the handler behind a step is
\* read from lastOp' (a step of [Next]_vars that changes nothing is no step).
ClickStep == lastOp' \in {"accepted", "rejected"}

TimerStep == lastOp' \in {"timerStale", "timerFresh"}

ResetStep == lastOp' \in {"back", "start"}

\* The timer that fires was scheduled before the last reset.
StaleTimerFires == lastOp' = "timerStale"

\* A click or a timer firing that wrote a mark.
MoveStep == (ClickStep \/ TimerStep) /\ board' # board

MarkCount(b) == Cardinality({c \in Cells : b[c] # ""})

NthMark(n) == IF n % 2 = 1 THEN "X" ELSE "O"

CompleteLines(b) == {k \in 1..Len(winningCombinations) : LineComplete(b, k)}

\* C1: a computer move scheduled before a reset changes nothing when it
\* fires after the reset: board, currentPlayer and gameActive are as before.
C1_StaleMoveIsNoOp ==
    [][StaleTimerFires => UNCHANGED <<board, currentPlayer, gameActive>>]_vars

\* C2: the n-th mark written since the last reset is X for odd n and O for
\* even n, currentPlayer is the mark of the next move while the game is in
\* progress, and the move that ends the game does not flip currentPlayer.
C2_StrictAlternation ==
    [][MoveStep =>
         /\ \A c \in Cells :
              board'[c] # board[c] => board'[c] = NthMark(MarkCount(board'))
         /\ gameActive' => currentPlayer' = NthMark(MarkCount(board') + 1)
         /\ ~gameActive' => currentPlayer' = currentPlayer]_vars

\* The four cases of a rejected click, stated on the state before the click.
RejectCase(i) ==
    \/ i \notin Cells
    \/ (i \in Cells /\ board[i] # "")
    \/ ~gameActive
    \/ (gameMode = "human-computer" /\ currentPlayer = "O")

\* C3: a click on a filled cell, on an index outside 0..8, on a finished
\* game or on the computer's turn leaves board, currentPlayer, gameActive
\* and the status unchanged and schedules no computer move.
C3_RejectedClickChangesNothing ==
    [][\A i \in ClickIndices :
         (ClickStep /\ RejectCase(i) /\ handleCellClick(i)) =>
             UNCHANGED <<board, currentPlayer, gameActive, status, timers>>]_vars

\* A click was just rejected on the computer's turn, its move still pending.
C3_Witness ==
    /\ lastOp = "rejected"
    /\ gameMode = "human-computer"
    /\ currentPlayer = "O"
    /\ gameActive
    /\ timers = <<"fresh">>

\* The full board without an aligned triple that the specification names.
DrawExample ==
    [c \in Cells |-> IF c \in {0, 2, 4, 7} THEN "X" ELSE "O"]

\* C4: a draw is reported iff the board is full and no line is complete;
\* a move that fills the ninth cell and completes a line ends the game as a
\* win for the mover; the named full board is a draw and not a win.
C4_WinBeforeDraw ==
    /\ [](status = DrawMsg <=> (BoardFull(board) /\ CompleteLines(board) = {}))
    /\ [][(MoveStep /\ BoardFull(board') /\ CompleteLines(board') # {}) =>
            /\ ~gameActive'
            /\ \A c \in Cells : board'[c] # board[c] => status' = WinsMsg(board'[c])]_vars
    /\ [](Outcome(DrawExample) = "draw" /\ ~checkForWin(DrawExample))

\* The ninth mark completed a line and X is reported as the winner.
C4_Witness ==
    /\ BoardFull(board)
    /\ CompleteLines(board) # {}
    /\ status = WinsMsg("X")
    /\ lastOp = "accepted"

\* C5: once gameActive is false, every click and every timer firing leaves
\* gameActive false and board and currentPlayer as they were; only a reset
\* changes them.
C5_EndedGameIsFrozen ==
    [][(~gameActive /\ (ClickStep \/ TimerStep)) =>
         /\ ~gameActive'
         /\ UNCHANGED <<board, currentPlayer, status>>]_vars

\* A timer fired on a game X had already won.
C5_Witness ==
    /\ ~gameActive
    /\ status = WinsMsg("X")
    /\ lastOp = "timerStale"

\* C6: a click or computer move that writes the board changes exactly one
\* cell, from empty to the mover's mark; an accepted click always writes; no
\* filled cell changes except by reset.
C6_OneCellPerMove ==
    [][(ClickStep \/ TimerStep) =>
         /\ \A c \in Cells : board[c] # "" => board'[c] = board[c]
         /\ Cardinality({c \in Cells : board'[c] # board[c]}) <= 1
         /\ \A c \in Cells :
              board'[c] # board[c] =>
                  board'[c] = IF TimerStep THEN "O" ELSE currentPlayer
         /\ lastOp' = "accepted" => board' # board]_vars

\* The computer has just written its second mark of a game.
C6_Witness ==
    /\ lastOp = "timerFresh"
    /\ Cardinality({c \in Cells : placedBy[c] = "computer"}) = 2
    /\ Cardinality({c \in Cells : placedBy[c] = "human"}) = 2

\* C7: in human-computer mode every O on the board was written by
\* makeComputerMove and every X by a click.
C7_HumanIsXComputerIsO ==
    gameMode = "human-computer" =>
        \A c \in Cells :
            /\ board[c] = "O" => placedBy[c] = "computer"
            /\ board[c] = "X" => placedBy[c] = "human"

\* A human-computer game with three marks of each player on the board.
C7_Witness ==
    /\ gameMode = "human-computer"
    /\ Cardinality({c \in Cells : board[c] = "O"}) = 3
    /\ Cardinality({c \in Cells : board[c] = "X"}) = 3

BoardOf(xs, os) ==
    [c \in Cells |-> IF c \in xs THEN "X" ELSE IF c \in os THEN "O" ELSE ""]

\* C8: the opponent can lose. In human-computer mode the human's moves
\* 0, 8, 6, 3 are answered by the priority chain with 4 (center), 2 (first
\* empty corner) and 7 (block of the bottom row), and the click on 3 then
\* completes the left column: the game is reported won by Player X.
C8_OpponentCanLose ==
    [][gameMode = "human-computer" =>
         /\ (TimerStep /\ gameActive /\ board = BoardOf({0}, {})) =>
                board' = BoardOf({0}, {4})
         /\ (TimerStep /\ gameActive /\ board = BoardOf({0, 8}, {4})) =>
                board' = BoardOf({0, 8}, {2, 4})
         /\ (TimerStep /\ gameActive /\ board = BoardOf({0, 6, 8}, {2, 4})) =>
                /\ board' = BoardOf({0, 6, 8}, {2, 4, 7})
                /\ gameActive'
                /\ currentPlayer' = "X"
         /\ (/\ board = BoardOf({0, 6, 8}, {2, 4, 7})
             /\ currentPlayer = "X"
             /\ gameActive
             /\ handleCellClick(3)) =>
                /\ board' = BoardOf({0, 3, 6, 8}, {2, 4, 7})
                /\ status' = WinsMsg("X")
                /\ ~gameActive']_vars

\* The lost game: X has just completed the left column against the computer.
C8_Witness ==
    /\ gameMode = "human-computer"
    /\ board = BoardOf({0, 3, 6, 8}, {2, 4, 7})
    /\ \A c \in {2, 4, 7} : placedBy[c] = "computer"
    /\ lastOp = "accepted"
    /\ lastCell = 3
    /\ status = WinsMsg("X")
    /\ ~gameActive
    /\ timers = << >>

\* C9 as stated: at most one of the eight lines is ever complete.
C9_AtMostOneLine == Cardinality(CompleteLines(board)) <= 1

LineCells(k) == {winningCombinations[k][j] : j \in 1..3}

LineMark(b, k) == b[winningCombinations[k][1]]

\* C9 amended: one move can complete two lines at once; every complete line
\* was completed by the move that ended the game, so all complete lines
\* hold the mover's mark and pass through the cell of that move, the game is
\* over and reported won by that mark, and the tie-break decides only which
\* line is highlighted (the first complete one in scan order).
C9_CompleteLinesShareLastMove ==
    /\ [](\A k \in CompleteLines(board) :
            /\ ~gameActive
            /\ status = WinsMsg(LineMark(board, k))
            /\ highlight = WinCells(board))
    /\ [][MoveStep =>
            /\ CompleteLines(board) = {}
            /\ \A k \in CompleteLines(board') :
                 /\ lastCell' \in LineCells(k)
                 /\ LineMark(board', k) = board'[lastCell']]_vars

\* One click of X completed two lines at once.
C9_Witness ==
    /\ Cardinality(CompleteLines(board)) = 2
    /\ lastOp = "accepted"
    /\ \A k \in CompleteLines(board) : lastCell \in LineCells(k)
    /\ status = WinsMsg("X")

\* Lines holding exactly two marks of p and one empty cell.
OpenLines(b, p) ==
    {k \in 1..Len(winningCombinations) :
        /\ Cardinality({c \in LineCells(k) : b[c] = p}) = 2
        /\ Cardinality({c \in LineCells(k) : b[c] = ""}) = 1}

\* The empty cell of the first line of OpenLines(b, p) in scan order.
FirstOpenCell(b, p) ==
    LET k == CHOOSE k \in OpenLines(b, p) : \A j \in OpenLines(b, p) : k <= j
    IN CHOOSE c \in LineCells(k) : b[c] = ""

\* C10: when the computer moves and some line holds two O and an empty
\* cell, it writes O into the empty cell of the first such line in scan
\* order, whatever the human threatens, and the game ends as a win for O.
C10_WinNow ==
    [][(TimerStep /\ gameActive /\ OpenLines(board, "O") # {}) =>
         /\ board' = [board EXCEPT ![FirstOpenCell(board, "O")] = "O"]
         /\ lastCell' = FirstOpenCell(board, "O")
         /\ status' = WinsMsg("O")
         /\ ~gameActive'
         /\ currentPlayer' = currentPlayer]_vars

\* The board before the last move.
BoardBefore == [board EXCEPT ![lastCell] = ""]

\* The computer has just won from a board on which two lines were open for O
\* with different empty cells and the human threatened a line of their own.
C10_Witness ==
    /\ lastOp = "timerFresh"
    /\ gameMode = "human-computer"
    /\ lastCell \in Cells
    /\ status = WinsMsg("O")
    /\ lastCell = FirstOpenCell(BoardBefore, "O")
    /\ \E k \in OpenLines(BoardBefore, "O") : lastCell \notin LineCells(k)
    /\ \E k \in OpenLines(BoardBefore, "X") : lastCell \notin LineCells(k)

\* The computer moves on a game in progress with no line open for O.
NoWinNowStep == TimerStep /\ gameActive /\ OpenLines(board, "O") = {}

\* The computer moves with neither a winning nor a blocking cell.
PositionalStep == NoWinNowStep /\ OpenLines(board, "X") = {}

\* The step wrote O into cell c and nothing else on the board.
ComputerTook(c) == board' = [board EXCEPT ![c] = "O"] /\ lastCell' = c

\* C11: when the computer moves, no line is open for O and some line holds
\* two X and one empty cell, it writes O into the empty cell of the first
\* such line in scan order; on [X,X,'','','','','','',''] that is cell 2.
C11_Block ==
    [][(NoWinNowStep /\ OpenLines(board, "X") # {}) =>
          ComputerTook(FirstOpenCell(board, "X"))]_vars

\* The computer has just answered [X,X,'','','','','','',''] with cell 2.
C11_Witness ==
    /\ lastOp = "timerFresh"
    /\ lastCell = 2
    /\ board = BoardOf({0, 1}, {2})

CornerPairs == << <<0, 8>>, <<2, 6>>, <<6, 2>>, <<8, 0>> >>

\* The pairs whose first corner holds X and whose opposite corner is empty.
MatchingPairs(b) ==
    {n \in 1..Len(CornerPairs) :
        b[CornerPairs[n][1]] = "X" /\ b[CornerPairs[n][2]] = ""}

FirstMatchingPair(b) ==
    CHOOSE n \in MatchingPairs(b) : \A j \in MatchingPairs(b) : n <= j

\* C12: with no winning or blocking cell and the center occupied, the
\* computer takes the opposite corner of the first pair, in the order 0->8,
\* 2->6, 6->2, 8->0, whose first corner holds X and whose opposite is empty;
\* with O at 4 and X at 0 that is cell 8.
C12_OppositeCorner ==
    [][(PositionalStep /\ board[4] # "" /\ MatchingPairs(board) # {}) =>
          ComputerTook(CornerPairs[FirstMatchingPair(board)][2])]_vars

\* The computer has just answered X at 0, O at 4 with cell 8.
C12_Witness ==
    /\ lastOp = "timerFresh"
    /\ lastCell = 8
    /\ board = BoardOf({0}, {4, 8})

\* The smallest empty cell among cs: the first one in the order 0,2,6,8 of
\* the corners or 1,3,5,7 of the sides.
SmallestEmpty(b, cs) ==
    CHOOSE c \in cs : b[c] = "" /\ \A d \in cs : b[d] = "" => c <= d

\* C13: with no winning or blocking cell the computer takes cell 4 if it is
\* empty; otherwise, when no corner pair matches, the first empty corner in
\* the order 0,2,6,8, and only if no corner is empty the first empty side in
\* the order 1,3,5,7.
C13_PositionalOrder ==
    [][PositionalStep =>
         /\ board[4] = "" => ComputerTook(4)
         /\ (/\ board[4] # ""
             /\ MatchingPairs(board) = {}
             /\ \E c \in {0, 2, 6, 8} : board[c] = "") =>
                ComputerTook(SmallestEmpty(board, {0, 2, 6, 8}))
         /\ (/\ board[4] # ""
             /\ \A c \in {0, 2, 6, 8} : board[c] # ""
             /\ \E c \in {1, 3, 5, 7} : board[c] = "") =>
                ComputerTook(SmallestEmpty(board, {1, 3, 5, 7}))]_vars

\* The computer has just taken side 5, the first of the empty sides 5 and 7,
\* on a board with center and corners filled and no line open.
C13_Witness ==
    /\ lastOp = "timerFresh"
    /\ lastCell = 5
    /\ availableCells(BoardBefore) = {5, 7}
    /\ OpenLines(BoardBefore, "O") = {}
    /\ OpenLines(BoardBefore, "X") = {}

\* C14: on every board with an empty cell rules 1 to 6 select an empty
\* cell, so the random fallback never runs, bestMove has one possible value
\* and every mark the computer writes goes into an empty cell.
C14_FallbackUnreachable ==
    /\ [](availableCells(board) # {} =>
            /\ StrategicMove(board) # -1
            /\ board[StrategicMove(board)] = ""
            /\ Cardinality(BestMoves(board)) = 1)
    /\ [][(TimerStep /\ gameActive /\ availableCells(board) # {}) =>
            /\ lastCell' \in availableCells(board)
            /\ ComputerTook(lastCell')]_vars

\* The computer has just filled the last empty cell, a side that neither
\* wins nor blocks: the last rule of the chain chose it.
C14_Witness ==
    /\ lastOp = "timerFresh"
    /\ lastCell = 7
    /\ availableCells(BoardBefore) = {7}
    /\ OpenLines(BoardBefore, "O") = {}
    /\ OpenLines(BoardBefore, "X") = {}

\* Some line holds three identical marks.
Aligned(b) ==
    \E k \in 1..Len(winningCombinations) : \E p \in Marks :
        \A c \in LineCells(k) : b[c] = p

C16_ResetRestoresStart ==
    [][ResetStep =>
         /\ board' = EmptyBoard
         /\ currentPlayer' = "X"
         /\ gameActive' = TRUE
         /\ status' = TurnMsg("X")
         /\ highlight' = {}
         /\ lastOp' = "back" => gameMode' = "human-human"
         /\ lastOp' = "start" =>
                \E m \in Modes : showGameScreen(m) /\ gameMode' = m]_vars

\* A game was reset on the computer's turn, its move still pending.
C16_Witness ==
    /\ lastOp \in {"back", "start"}
    /\ timers = <<"stale">>
    /\ board = EmptyBoard
    /\ currentPlayer = "X"

MarksOf(b, p) == Cardinality({c \in Cells : b[c] = p})

\* C17: the number of X on the board equals the number of O or exceeds it
\* by exactly one.
C17_MarkBalance ==
    \/ MarksOf(board, "X") = MarksOf(board, "O")
    \/ MarksOf(board, "X") = MarksOf(board, "O") + 1

\* C18: gameActive is false iff the board holds a complete line or has no
\* empty cell.
C18_StatusConsistency ==
    ~gameActive <=> (CompleteLines(board) # {} \/ BoardFull(board))

\* A game against the computer has ended in a draw.
C18_Witness ==
    /\ ~gameActive
    /\ gameMode = "human-computer"
    /\ BoardFull(board)
    /\ CompleteLines(board) = {}
    /\ status = DrawMsg

\* C19: in human-computer mode a computer move is pending whenever the game
\* is in progress on O's turn; an accepted human move that leaves the game
\* in progress hands the turn to O; the computer writes an O only on O's
\* turn, one per human move, and then the game is over or it is X's turn;
\* O's turn always comes to an end.
C19_ComputerResponse ==
    /\ []((gameMode = "human-computer" /\ gameActive /\ currentPlayer = "O") =>
              timers # << >>)
    /\ [][(gameMode = "human-computer" /\ lastOp' = "accepted" /\ gameActive') =>
              (currentPlayer' = "O" /\ timers' # << >>)]_vars
    /\ [][(gameMode = "human-computer" /\ TimerStep /\ board' # board) =>
              /\ currentPlayer = "O"
              /\ MarksOf(board', "O") = MarksOf(board', "X")
              /\ (~gameActive' \/ currentPlayer' = "X")]_vars
    /\ ((gameMode = "human-computer" /\ gameActive /\ currentPlayer = "O")
            ~> (~gameActive \/ currentPlayer = "X"))
====
